---------------------------- MODULE Spec2Model ----------------------------
(***************************************************************************)
(* hotdog: the accept loop and the per-connection pipeline of src/main.rs. *)
(*                                                                         *)
(* A connection worker reads syslog lines, parses each one, walks the      *)
(* configured rules in order and runs the actions of every matching rule   *)
(* (Forward / Merge / Replace / Stop).  The regex, handlebars, serde_json  *)
(* and rdkafka libraries are modelled by what the calls in main.rs do on   *)
(* the strings of a small universe; strings are TLA+ strings.              *)
(***************************************************************************)
EXTENDS Integers, Sequences, FiniteSets, TLC

(***************************************************************************)
(* Bounds of the model.                                                    *)
(***************************************************************************)
\* connections the accept loop accepts
MaxConn == 2
\* lines a worker reads from its connection
MaxLines == 2

(***************************************************************************)
(* Option<T>                                                               *)
(***************************************************************************)
None == [some |-> FALSE]
Some(x) == [some |-> TRUE, v |-> x]

(***************************************************************************)
(* Strings.                                                                *)
(***************************************************************************)
\* s[i..j], the empty string when the range is empty
Substr(s, i, j) == IF i > j THEN "" ELSE SubSeq(s, i, j)
Char(s, i) == SubSeq(s, i, i)

\* least index j >= i at which sub occurs in s, 0 when there is none
IndexFrom(s, sub, i) ==
    LET hits == {j \in i..(Len(s) - Len(sub) + 1) : SubSeq(s, j, j + Len(sub) - 1) = sub}
    IN IF hits = {} THEN 0 ELSE CHOOSE j \in hits : \A k \in hits : j <= k

Digits == {"0", "1", "2", "3", "4", "5", "6", "7", "8", "9"}
Lowers == {"a", "b", "c", "d", "e", "f", "g", "h", "i", "j", "k", "l", "m",
           "n", "o", "p", "q", "r", "s", "t", "u", "v", "w", "x", "y", "z"}
ClassOf(c) == IF c = "d" THEN Digits ELSE Lowers

\* length of the longest run of characters of class cls starting at s[i]
RunLen(s, i, cls) ==
    LET stops == {j \in i..Len(s) : Char(s, j) \notin cls}
    IN IF stops = {} THEN Len(s) - i + 1
       ELSE (CHOOSE j \in stops : \A k \in stops : j <= k) - i

(***************************************************************************)
(* serde_json::Value, serde_json::to_string and serde_json::from_str.      *)
(***************************************************************************)
Null == [t |-> "null"]
Bool(b) == [t |-> "bool", b |-> b]
Num(n) == [t |-> "num", n |-> n]
Str(s) == [t |-> "str", s |-> s]
Arr(a) == [t |-> "arr", a |-> a]
Obj(o) == [t |-> "obj", o |-> o]
EmptyObj == Obj([k \in {} |-> Null])

\* the object keys of the universe, in the order of serde_json's BTreeMap
KeyOrder == <<"a", "code", "level", "x", "y">>

RECURSIVE to_string(_)
RECURSIVE SerSeq(_, _)
RECURSIVE SerObj(_, _, _)
SerSeq(a, i) ==
    IF i > Len(a) THEN ""
    ELSE (IF i > 1 THEN "," ELSE "") \o to_string(a[i]) \o SerSeq(a, i + 1)
SerObj(o, i, first) ==
    IF i > Len(KeyOrder) THEN ""
    ELSE IF KeyOrder[i] \notin DOMAIN o THEN SerObj(o, i + 1, first)
    ELSE (IF first THEN "" ELSE ",") \o "\"" \o KeyOrder[i] \o "\":"
         \o to_string(o[KeyOrder[i]]) \o SerObj(o, i + 1, FALSE)
to_string(v) ==
    CASE v.t = "null" -> "null"
      [] v.t = "bool" -> IF v.b THEN "true" ELSE "false"
      [] v.t = "num" -> ToString(v.n)
      [] v.t = "str" -> "\"" \o v.s \o "\""
      [] v.t = "arr" -> "[" \o SerSeq(v.a, 1) \o "]"
      [] v.t = "obj" -> "{" \o SerObj(v.o, 1, TRUE) \o "}"

\* the JSON documents of the universe: from_str accepts exactly their texts
Docs ==
    { Obj("code" :> Num(500)),
      Obj("code" :> Num(500) @@ "level" :> Str("warn")),
      Obj("a" :> Obj("x" :> Num(1))),
      Obj("a" :> Arr(<<Num(1), Num(2)>>)),
      Num(7) }

from_str(s) ==
    IF \E d \in Docs : to_string(d) = s
    THEN Some(CHOOSE d \in Docs : to_string(d) = s)
    ELSE None

(***************************************************************************)
(* merge::merge(base, patch), src/merge.rs (declared at main.rs:33).       *)
(* Modelled from the merge rules: two objects are merged key by key, a     *)
(* patch that is not an object replaces the base.  The rules are silent on *)
(* an object patch met by a base that is not an object; the patch replaces *)
(* the base there too.                                                     *)
(***************************************************************************)
\* (mutant) a shared key takes the patch value without recursion
merge_Shallow(base, patch) ==
    IF base.t = "obj" /\ patch.t = "obj"
    THEN Obj([k \in (DOMAIN base.o) \cup (DOMAIN patch.o) |->
                IF k \in DOMAIN patch.o THEN patch.o[k] ELSE base.o[k]])
    ELSE patch

RECURSIVE merge(_, _)
merge(base, patch) ==
    IF base.t = "obj" /\ patch.t = "obj"
    THEN Obj([k \in (DOMAIN base.o) \cup (DOMAIN patch.o) |->
                IF k \notin DOMAIN patch.o THEN base.o[k]
                ELSE IF k \notin DOMAIN base.o THEN patch.o[k]
                ELSE merge(base.o[k], patch.o[k])])
    ELSE patch

(***************************************************************************)
(* Handlebars::render_template(template, &hash).                           *)
(* {{name}} is replaced by the HTML-escaped value of name, by nothing when *)
(* hash has no such key (strict mode is off); an unclosed or empty {{      *)
(* is a template error.                                                    *)
(***************************************************************************)
RECURSIVE EscapeFrom(_, _)
EscapeFrom(s, i) ==
    IF i > Len(s) THEN ""
    ELSE LET c == Char(s, i)
             e == CASE c = "\"" -> "&quot;"
                    [] c = "&" -> "&amp;"
                    [] c = "<" -> "&lt;"
                    [] c = ">" -> "&gt;"
                    [] OTHER -> c
         IN e \o EscapeFrom(s, i + 1)

html_escape(s) == EscapeFrom(s, 1)

RECURSIVE render_template(_, _)
render_template(template, hash) ==
    LET i == IndexFrom(template, "{{", 1)
        j == IndexFrom(template, "}}", i + 2)
    IN IF i = 0 THEN Some(template)
       ELSE IF j = 0 \/ j = i + 2 THEN None
       ELSE LET name == Substr(template, i + 2, j - 1)
                val == IF name \in DOMAIN hash THEN html_escape(hash[name]) ELSE ""
                rest == render_template(Substr(template, j + 2, Len(template)), hash)
            IN IF rest.some
               THEN Some(Substr(template, 1, i - 1) \o val \o rest.v)
               ELSE None

(***************************************************************************)
(* regex::Regex.  A compiled pattern is a literal followed by capture      *)
(* groups, each a run of one character class, optional or not:             *)
(*   [lit |-> "code\":", groups |-> <<[name |-> Some("code"), cls |-> "d", *)
(*    opt |-> FALSE]>>]  is  code":(?P<code>\d+)                           *)
(***************************************************************************)
Group(name, cls, opt) == [name |-> name, cls |-> cls, opt |-> opt]
Regex(lit, groups) == [lit |-> lit, groups |-> groups]

\* Regex::capture_names(): group 0 (the whole match) is unnamed
capture_names(re) == <<None>> \o [g \in 1..Len(re.groups) |-> re.groups[g].name]

\* group g of re matched as the run of n characters at s[q..], the groups
\* after it matched as rest
GroupMatch(re, s, q, g, n, rest) ==
    IF (n = 0 /\ ~re.groups[g].opt) \/ ~rest.some THEN None
    ELSE Some([caps |-> <<IF n = 0 THEN None ELSE Some(SubSeq(s, q, q + n - 1))>>
                        \o rest.v.caps,
               end |-> rest.v.end])

\* the groups g.. of re matched at s[q..]: the texts (None for an optional
\* group that matched nothing) and the end of the match, or None
RECURSIVE MatchGroups(_, _, _, _)
MatchGroups(re, s, q, g) ==
    IF g > Len(re.groups) THEN Some([caps |-> <<>>, end |-> q])
    ELSE CHOOSE m \in {GroupMatch(re, s, q, g, n, MatchGroups(re, s, q + n, g + 1)) :
                         n \in {RunLen(s, q, ClassOf(re.groups[g].cls))}} : TRUE

MatchAt(re, s, p) ==
    IF p + Len(re.lit) - 1 > Len(s) \/ Substr(s, p, p + Len(re.lit) - 1) # re.lit THEN None
    ELSE MatchGroups(re, s, p + Len(re.lit), 1)

\* Regex::captures(text): the leftmost match; caps[1] is group 0
captures(re, s) ==
    LET matches == {pm \in {[p |-> p, m |-> MatchAt(re, s, p)] : p \in 1..(Len(s) + 1)} :
                      pm.m.some}
    IN IF matches = {} THEN None
       ELSE CHOOSE c \in {Some(<<Some(Substr(s, pm.p, pm.m.v.end - 1))>> \o pm.m.v.caps) :
                            pm \in {x \in matches : \A y \in matches : x.p <= y.p}} : TRUE

\* Captures::name(name): the text of the group called name, if it took part
CapturesName(re, caps, name) ==
    LET idx == {g \in 1..Len(capture_names(re)) : capture_names(re)[g] = Some(name)}
    IN IF idx = {} THEN None ELSE caps[CHOOSE g \in idx : TRUE]

(***************************************************************************)
(* syslog_rfc5424::parse_message(line).  A record of the universe is an    *)
(* RFC 5424 header with every field nil followed by the message body, or   *)
(* text with no header, which the parser rejects.                          *)
(***************************************************************************)
Header == "<34>1 - - - - - - "
SyslogLine(body) == Header \o body

parse_message(line) ==
    IF Len(line) >= Len(Header) /\ Substr(line, 1, Len(Header)) = Header
    THEN Some([msg |-> Substr(line, Len(Header) + 1, Len(line))])
    ELSE None

(***************************************************************************)
(* settings::Settings (src/settings.rs, used at main.rs:165-240): the      *)
(* ordered rules, each a field, a regex and ordered actions.               *)
(***************************************************************************)
Forward(topic) == [kind |-> "Forward", topic |-> topic]
Merge(json) == [kind |-> "Merge", json |-> json]
Replace(template) == [kind |-> "Replace", template |-> template]
Stop == [kind |-> "Stop"]
Rule(field, regex, actions) == [field |-> field, regex |-> regex, actions |-> actions]

\* code":(?P<code>\d+)
ReCode == Regex("code\":", <<Group(Some("code"), "d", FALSE)>>)
\* code":(\d+)(?P<unit>[a-z]+)? : an unnamed group and an optional named one
ReUnit == Regex("code\":", <<Group(None, "d", FALSE), Group(Some("unit"), "a", TRUE)>>)
\* code":(?P<msg>\d+) : a named group called msg
ReMsg == Regex("code\":", <<Group(Some("msg"), "d", FALSE)>>)
\* the empty pattern, which matches every body
ReAny == Regex("", <<>>)

PatchLevel == Obj("level" :> Str("error"))

\* the message bodies of the universe
BodyJson == "{\"code\":500}"
BodyText == "code\":42ms oops"
BodyPlain == "hello"
Bodies == {BodyJson, BodyText, BodyPlain}
Malformed == "not syslog"
Lines == {SyslogLine(b) : b \in Bodies} \cup {Malformed}

\* the configurations of the universe
Configs ==
    << \* merge then forward to a topic named after a capture
       << Rule("Msg", ReCode, <<Merge(PatchLevel), Forward("errors-{{code}}")>>) >>,
       \* a Stop between two other actions, and a later rule that would match
       << Rule("Msg", ReCode, <<Replace("seen {{code}}"), Stop, Forward("first")>>),
          Rule("Msg", ReAny, <<Forward("second")>>) >>,
       \* a Merge after a Replace, and a later rule that would match
       << Rule("Msg", ReCode, <<Replace("{{msg}}"), Merge(PatchLevel), Forward("merged")>>),
          Rule("Msg", ReAny, <<Replace("tail"), Forward("tail-{{code}}")>>) >>,
       \* an unhandled field, a pattern that may not match, a catch-all
       << Rule("Severity", ReAny, <<Stop, Forward("severity")>>),
          Rule("Msg", ReCode, <<Replace("c{{code}}"), Merge(EmptyObj), Stop, Forward("code")>>),
          Rule("Msg", ReAny, <<Forward("all")>>) >>,
       \* a buffer filled by the first rule and a bare Forward in the second
       << Rule("Msg", ReUnit, <<Replace("x{{unit}}"), Forward("a"), Merge(PatchLevel),
                                Merge(EmptyObj), Forward("b")>>),
          Rule("Msg", ReAny, <<Forward("c")>>) >>,
       \* templates that do not render
       << Rule("Msg", ReCode, <<Merge(PatchLevel), Forward("errors-{{code")>>),
          Rule("Msg", ReMsg, <<Replace("{{}}"), Forward("plain-{{msg}}")>>) >> >>

(***************************************************************************)
(* State.                                                                  *)
(***************************************************************************)
Workers == 1..MaxConn

VARIABLES
    settings,           \* main.rs:63, the loaded Settings (an index of Configs)
    backlog,            \* environment: clients that have yet to connect
    proc,               \* the process: "running", "exited" or "aborted"
    spawned,            \* workers spawned by accept_loop (main.rs:133)
    connection_count,   \* the "connections" counter (main.rs:127)
    lines_count,        \* the "lines" counter (main.rs:146)
    pc,                 \* where each worker is in connection_loop
    err,                \* why a worker returned Err
    lineNo,             \* records a worker has read from its stream
    msg,                \* main.rs:160, msg.msg of the record being evaluated
    ri,                 \* the rule of `for rule in settings.rules.iter()`
    ai,                 \* the action of `for action in rule.actions.iter()`
    continue_rules,     \* main.rs:163
    output,             \* main.rs:175
    rule_matches,       \* main.rs:176
    hash,               \* main.rs:177
    pubs,               \* the records a worker handed to its producer
    delivery,           \* the delivery future of the last send (main.rs:214)
    input,              \* history: the bodies of the records a worker parsed
    trace,              \* history: the rules evaluated and actions executed
    mergeBase,          \* main.rs:222, msg_json before merge::merge
    mergePatch,         \* main.rs:223, json, the `&Value` handed to merge::merge
    mergeOut            \* main.rs:223, msg_json after merge::merge

procVars == <<settings, backlog, proc, spawned, connection_count, lines_count>>
workerVars == <<pc, err, lineNo, msg, ri, ai, continue_rules, output,
                rule_matches, hash, pubs, delivery, input, trace>>
mergeVars == <<mergeBase, mergePatch, mergeOut>>
vars == <<procVars, workerVars, mergeVars>>

rules == Configs[settings]

\* the state after startup: settings loaded, the listen socket bound
Started(clients) ==
    /\ settings \in 1..Len(Configs)
    /\ backlog = clients
    /\ proc = "running"
    /\ spawned = 0
    /\ connection_count = 0
    /\ lines_count = 0
    /\ pc = [w \in Workers |-> "none"]
    /\ err = [w \in Workers |-> "none"]
    /\ lineNo = [w \in Workers |-> 0]
    /\ msg = [w \in Workers |-> ""]
    /\ ri = [w \in Workers |-> 1]
    /\ ai = [w \in Workers |-> 1]
    /\ continue_rules = [w \in Workers |-> TRUE]
    /\ output = [w \in Workers |-> ""]
    /\ rule_matches = [w \in Workers |-> FALSE]
    /\ hash = [w \in Workers |-> <<>>]
    /\ pubs = [w \in Workers |-> <<>>]
    /\ delivery = [w \in Workers |-> "none"]
    /\ input = [w \in Workers |-> <<>>]
    /\ trace = [w \in Workers |-> <<>>]

\* MaxConn clients connect
Init == Started(MaxConn) /\ mergeBase = Null /\ mergePatch = Null /\ mergeOut = None
\* a single client connects
InitConnection == Started(1) /\ mergeBase = Null /\ mergePatch = Null /\ mergeOut = None

(***************************************************************************)
(* accept_loop, main.rs:124-136.  One iteration of `while let Some(stream) *)
(* = incoming.next().await`: the counter is bumped before the stream is    *)
(* looked at; a failed accept (line 131) or peer_addr (line 132) returns   *)
(* Err from accept_loop, which main returns from block_on (line 80): the   *)
(* process exits.                                                          *)
(***************************************************************************)
AcceptOutcomes == {"ok", "accept_err", "peer_addr_err"}

AcceptLoop(outcome) ==
    /\ proc = "running"
    /\ backlog > 0
    /\ backlog' = backlog - 1
    /\ connection_count' = connection_count + 1
    /\ IF outcome = "ok"
       THEN /\ spawned' = spawned + 1
            /\ pc' = [pc EXCEPT ![spawned + 1] = "start"]
            /\ proc' = proc
       ELSE /\ proc' = "exited"
            /\ UNCHANGED <<spawned, pc>>
    /\ UNCHANGED <<settings, lines_count, err, lineNo, msg, ri, ai, continue_rules,
                   output, rule_matches, hash, pubs, delivery, input, trace>>

(***************************************************************************)
(* connection_loop, main.rs:142-154: peer_addr()? , the counter handle,    *)
(* the producer (`.expect` panics when it cannot be created; whether a     *)
(* panicking task takes the process down is the runtime's choice) and the  *)
(* template registry.                                                      *)
(***************************************************************************)
StartOutcomes == {"ok", "peer_addr_err", "producer_err"}

WorkerStart(w, outcome) ==
    /\ proc = "running"
    /\ pc[w] = "start"
    /\ CASE outcome = "ok" ->
              /\ pc' = [pc EXCEPT ![w] = "read"]
              /\ UNCHANGED <<err, proc>>
         [] outcome = "peer_addr_err" ->
              /\ pc' = [pc EXCEPT ![w] = "err"]
              /\ err' = [err EXCEPT ![w] = "peer_addr"]
              /\ UNCHANGED proc
         [] outcome = "producer_err" ->
              /\ pc' = [pc EXCEPT ![w] = "panic"]
              /\ proc' \in {"running", "aborted"}
              /\ UNCHANGED err
    /\ UNCHANGED <<settings, backlog, spawned, connection_count, lines_count, lineNo, msg,
                   ri, ai, continue_rules, output, rule_matches, hash, pubs, delivery,
                   input, trace>>

(***************************************************************************)
(* main.rs:156-163: `lines.next().await` yields a record, which is parsed  *)
(* (`?` returns Err when the parser rejects it), counted, and starts rule  *)
(* evaluation with continue_rules = true.                                  *)
(***************************************************************************)
\* (mutant) the next record is read while a delivery is still awaited
AtRead_Pipelined(w) == pc[w] \in {"read", "await"}

\* main.rs:156: the worker is at `lines.next().await`
AtRead(w) == pc[w] = "read"

\* (mutant) the rejected record is logged and the loop goes on
ParseRejected_Skip(w) ==
    /\ pc' = [pc EXCEPT ![w] = "read"]
    /\ err' = [err EXCEPT ![w] = "parse"]

\* main.rs:160: `parse_message(line)?` on a record the parser rejects
ParseRejected(w) ==
    /\ pc' = [pc EXCEPT ![w] = "err"]
    /\ err' = [err EXCEPT ![w] = "parse"]

\* (mutant) continue_rules declared outside the `while` loop
LineStart_Keep(w) == UNCHANGED continue_rules

\* main.rs:163: `let mut continue_rules = true;`
LineStart(w) == continue_rules' = [continue_rules EXCEPT ![w] = TRUE]

ReadLine(w, line) ==
    /\ proc = "running"
    /\ AtRead(w)
    /\ lineNo[w] < MaxLines
    /\ lineNo' = [lineNo EXCEPT ![w] = @ + 1]
    /\ delivery' = [delivery EXCEPT ![w] = "none"]
    /\ LET parsed == parse_message(line)
       IN IF parsed.some
          THEN /\ msg' = [msg EXCEPT ![w] = parsed.v.msg]
               /\ lines_count' = lines_count + 1
               /\ LineStart(w)
               /\ ri' = [ri EXCEPT ![w] = 1]
               /\ pc' = [pc EXCEPT ![w] = "rule"]
               /\ input' = [input EXCEPT ![w] = Append(@, parsed.v.msg)]
               /\ UNCHANGED err
          ELSE /\ ParseRejected(w)
               /\ UNCHANGED <<msg, lines_count, continue_rules, ri, input>>
    /\ UNCHANGED <<settings, backlog, proc, spawned, connection_count, ai, output,
                   rule_matches, hash, pubs, trace>>

\* main.rs:157: `lines.next().await` yields Some(Err), `line?` returns it
ReadError(w) ==
    /\ proc = "running"
    /\ AtRead(w)
    /\ lineNo[w] < MaxLines
    /\ pc' = [pc EXCEPT ![w] = "err"]
    /\ err' = [err EXCEPT ![w] = "read"]
    /\ delivery' = [delivery EXCEPT ![w] = "none"]
    /\ UNCHANGED <<procVars, lineNo, msg, ri, ai, continue_rules, output, rule_matches,
                   hash, pubs, input, trace>>

\* main.rs:156, 245-246: the peer closed the stream; peer_addr()? once more
StreamEnd(w, peerOk) ==
    /\ proc = "running"
    /\ AtRead(w)
    /\ pc' = [pc EXCEPT ![w] = IF peerOk THEN "ok" ELSE "err"]
    /\ err' = [err EXCEPT ![w] = IF peerOk THEN @ ELSE "peer_addr"]
    /\ delivery' = [delivery EXCEPT ![w] = "none"]
    /\ UNCHANGED <<procVars, lineNo, msg, ri, ai, continue_rules, output, rule_matches,
                   hash, pubs, input, trace>>

(***************************************************************************)
(* main.rs:165-204: one iteration of the rule loop up to the actions.      *)
(***************************************************************************)
Ev(w, kind, a) == [line |-> lineNo[w], rule |-> ri[w], act |-> a, ev |-> kind]

\* (mutant) a named group that took no part is inserted as the empty string
RECURSIVE InsertCaptures_Empty(_, _, _, _)
InsertCaptures_Empty(h, re, caps, i) ==
    IF i > Len(capture_names(re)) THEN h
    ELSE LET name == capture_names(re)[i]
             value == IF name.some THEN CapturesName(re, caps, name.v) ELSE None
         IN IF name.some
            THEN InsertCaptures_Empty((name.v :> (IF value.some THEN value.v ELSE "")) @@ h,
                                      re, caps, i + 1)
            ELSE InsertCaptures_Empty(h, re, caps, i + 1)

\* main.rs:185-191: every named group that took part goes into the hash
RECURSIVE InsertCaptures(_, _, _, _)
InsertCaptures(h, re, caps, i) ==
    IF i > Len(capture_names(re)) THEN h
    ELSE LET name == capture_names(re)[i]
             value == IF name.some THEN CapturesName(re, caps, name.v) ELSE None
         IN IF name.some /\ value.some
            THEN InsertCaptures((name.v :> value.v) @@ h, re, caps, i + 1)
            ELSE InsertCaptures(h, re, caps, i + 1)

\* (mutant) every field selector is matched against the message body
RuleCaptures_AnyField(rule, body) == captures(rule.regex, body)

\* main.rs:180-197: only Field::Msg is matched against the pattern
RuleCaptures(rule, body) ==
    IF rule.field = "Msg" THEN captures(rule.regex, body) ELSE None

\* (mutant) the hash is built inside `if let Some(captures)`
RuleHash_OnMatch(rule, body) ==
    LET caps == RuleCaptures(rule, body)
    IN IF caps.some THEN InsertCaptures(("msg" :> body), rule.regex, caps.v, 1) ELSE <<>>

\* main.rs:177-192
RuleHash(rule, body) ==
    LET seeded == ("msg" :> body)
        caps == RuleCaptures(rule, body)
    IN IF caps.some THEN InsertCaptures(seeded, rule.regex, caps.v, 1) ELSE seeded

\* (mutant) the buffer declared outside the rule loop
NewBuffer_Carried(w) == output[w]

\* main.rs:175: `let mut output = String::new();`
NewBuffer(w) == ""

\* (mutant) the rule loop without its `if ! continue_rules { break; }`
RuleLoopEnds_NoBreak(w) == ri[w] > Len(rules)

\* main.rs:170-172: `if ! continue_rules { break; }`
RuleLoopEnds(w) == ri[w] > Len(rules) \/ ~continue_rules[w]

EvalRule(w) ==
    /\ proc = "running"
    /\ pc[w] = "rule"
    /\ delivery' = [delivery EXCEPT ![w] = "none"]
    /\ IF RuleLoopEnds(w)
       THEN /\ pc' = [pc EXCEPT ![w] = "read"]
            /\ UNCHANGED <<ri, ai, output, rule_matches, hash, trace>>
       ELSE LET rule == rules[ri[w]]
                matched == RuleCaptures(rule, msg[w]).some
            IN /\ output' = [output EXCEPT ![w] = NewBuffer(w)]
               /\ rule_matches' = [rule_matches EXCEPT ![w] = matched]
               /\ hash' = [hash EXCEPT ![w] = RuleHash(rule, msg[w])]
               /\ trace' = [trace EXCEPT ![w] =
                              Append(@, Ev(w, IF matched THEN "match" ELSE "nomatch", 0))]
               /\ IF matched /\ Len(rule.actions) > 0
                  THEN /\ pc' = [pc EXCEPT ![w] = "action"]
                       /\ ai' = [ai EXCEPT ![w] = 1]
                       /\ UNCHANGED ri
                  ELSE /\ ri' = [ri EXCEPT ![w] = @ + 1]
                       /\ UNCHANGED <<pc, ai>>
    /\ UNCHANGED <<procVars, err, lineNo, msg, continue_rules, pubs, input>>

(***************************************************************************)
(* main.rs:209-241: one action of the matched rule.                        *)
(***************************************************************************)
CurAction(w) == rules[ri[w]].actions[ai[w]]

AtAction(w, kind) ==
    /\ proc = "running"
    /\ pc[w] = "action"
    /\ CurAction(w).kind = kind

\* (mutant) the rule loop does not advance after the last action
NextAction_SameRule(w) ==
    IF ai[w] < Len(rules[ri[w]].actions)
    THEN /\ pc' = [pc EXCEPT ![w] = "action"]
         /\ ai' = [ai EXCEPT ![w] = @ + 1]
         /\ UNCHANGED ri
    ELSE /\ pc' = [pc EXCEPT ![w] = "rule"]
         /\ UNCHANGED <<ri, ai>>

\* the next action of the rule, or the next iteration of the rule loop
NextAction(w) ==
    IF ai[w] < Len(rules[ri[w]].actions)
    THEN /\ pc' = [pc EXCEPT ![w] = "action"]
         /\ ai' = [ai EXCEPT ![w] = @ + 1]
         /\ UNCHANGED ri
    ELSE /\ pc' = [pc EXCEPT ![w] = "rule"]
         /\ ri' = [ri EXCEPT ![w] = @ + 1]
         /\ UNCHANGED ai

Executed(w) == trace' = [trace EXCEPT ![w] = Append(@, Ev(w, "exec", ai[w]))]

\* (mutant) the record is sent without a key
FutureRecord_NoKey(w, topic) ==
    [line |-> lineNo[w], rule |-> ri[w], act |-> ai[w],
     topic |-> topic, payload |-> output[w], key |-> ""]

\* main.rs:215-217: FutureRecord::to(&rendered).payload(&output).key(&output)
FutureRecord(w, topic) ==
    [line |-> lineNo[w], rule |-> ri[w], act |-> ai[w],
     topic |-> topic, payload |-> output[w], key |-> output[w]]

\* main.rs:211-220: render the topic; hand the record to the producer and
\* await its delivery future
ActForward(w) ==
    /\ AtAction(w, "Forward")
    /\ Executed(w)
    /\ LET rendered == render_template(CurAction(w).topic, hash[w])
       IN IF rendered.some
          THEN /\ pubs' = [pubs EXCEPT ![w] = Append(@, FutureRecord(w, rendered.v))]
               /\ pc' = [pc EXCEPT ![w] = "await"]
               /\ delivery' = [delivery EXCEPT ![w] = "pending"]
               /\ UNCHANGED <<ri, ai>>
          ELSE /\ NextAction(w)
               /\ delivery' = [delivery EXCEPT ![w] = "none"]
               /\ UNCHANGED pubs
    /\ UNCHANGED <<procVars, err, lineNo, msg, continue_rules, output, rule_matches,
                   hash, input>>

\* (mutant) `producer.send(..).await?`: a failed delivery returns Err
AfterDelivery_Checked(w, result) ==
    IF result = "ok"
    THEN NextAction(w)
    ELSE /\ pc' = [pc EXCEPT ![w] = "err"]
         /\ UNCHANGED <<ri, ai>>

\* main.rs:214-217: `producer.send(..).await;` drops the delivery result
AfterDelivery(w, result) == NextAction(w)

Delivered(w, result) ==
    /\ proc = "running"
    /\ pc[w] = "await"
    /\ delivery' = [delivery EXCEPT ![w] = result]
    /\ AfterDelivery(w, result)
    /\ UNCHANGED <<procVars, err, lineNo, msg, continue_rules, output, rule_matches,
                   hash, pubs, input, trace>>

\* (mutant) a failed parse also empties the buffer
MergeFailed_Clears(w) ==
    /\ continue_rules' = [continue_rules EXCEPT ![w] = FALSE]
    /\ output' = [output EXCEPT ![w] = ""]

\* main.rs:227-230: the body is not JSON
MergeFailed(w) ==
    /\ continue_rules' = [continue_rules EXCEPT ![w] = FALSE]
    /\ UNCHANGED output

\* (mutant) the patch is merged into what the buffer holds
MergeSource_Buffer(w) == IF output[w] = "" THEN msg[w] ELSE output[w]

\* main.rs:222: serde_json::from_str(&msg.msg) parses the body of the record
MergeSource(w) == msg[w]

\* main.rs:221-231
ActMerge(w) ==
    /\ AtAction(w, "Merge")
    /\ Executed(w)
    /\ LET msg_json == from_str(MergeSource(w))
       IN IF msg_json.some
          THEN /\ output' = [output EXCEPT ![w] =
                               to_string(merge(msg_json.v, CurAction(w).json))]
               /\ UNCHANGED continue_rules
          ELSE MergeFailed(w)
    /\ NextAction(w)
    /\ delivery' = [delivery EXCEPT ![w] = "none"]
    /\ UNCHANGED <<procVars, err, lineNo, msg, rule_matches, hash, pubs, input>>

\* (mutant) a template that does not render is used as it stands
Rendered_OrTemplate(w) ==
    IF render_template(CurAction(w).template, hash[w]).some
    THEN render_template(CurAction(w).template, hash[w])
    ELSE Some(CurAction(w).template)

\* main.rs:233: hb.render_template(template, &hash)
Rendered(w) == render_template(CurAction(w).template, hash[w])

\* main.rs:232-236
ActReplace(w) ==
    /\ AtAction(w, "Replace")
    /\ Executed(w)
    /\ IF Rendered(w).some
       THEN output' = [output EXCEPT ![w] = Rendered(w).v]
       ELSE UNCHANGED output
    /\ NextAction(w)
    /\ delivery' = [delivery EXCEPT ![w] = "none"]
    /\ UNCHANGED <<procVars, err, lineNo, msg, continue_rules, rule_matches, hash,
                   pubs, input>>

\* main.rs:237-239
ActStop(w) ==
    /\ AtAction(w, "Stop")
    /\ Executed(w)
    /\ continue_rules' = [continue_rules EXCEPT ![w] = FALSE]
    /\ NextAction(w)
    /\ delivery' = [delivery EXCEPT ![w] = "none"]
    /\ UNCHANGED <<procVars, err, lineNo, msg, output, rule_matches, hash, pubs, input>>

WorkerStep(w) ==
    \/ \E outcome \in StartOutcomes : WorkerStart(w, outcome)
    \/ \E line \in Lines : ReadLine(w, line)
    \/ ReadError(w)
    \/ \E peerOk \in BOOLEAN : StreamEnd(w, peerOk)
    \/ EvalRule(w)
    \/ ActForward(w)
    \/ \E result \in {"ok", "err"} : Delivered(w, result)
    \/ ActMerge(w)
    \/ ActReplace(w)
    \/ ActStop(w)

Next ==
    \/ \E outcome \in AcceptOutcomes : AcceptLoop(outcome) /\ UNCHANGED mergeVars
    \/ \E w \in Workers : WorkerStep(w) /\ UNCHANGED mergeVars

Spec == Init /\ [][Next]_vars
SpecConnection == InitConnection /\ [][Next]_vars

\* main.rs:163-243: the evaluation of a record, from the first rule to the
\* end of the rule loop
Evaluate(w) ==
    /\ \/ EvalRule(w)
       \/ ActForward(w)
       \/ \E result \in {"ok", "err"} : Delivered(w, result)
       \/ ActMerge(w)
       \/ ActReplace(w)
       \/ ActStop(w)
    /\ UNCHANGED mergeVars

\* a task that can run is run, and a delivery future completes: with the
\* delivery report or when message.timeout.ms (main.rs:150) expires
SpecConnectionFair == SpecConnection /\ \A w \in Workers : WF_vars(Evaluate(w))

(***************************************************************************)
(* merge::merge on its own (the call at main.rs:223): msg_json and json    *)
(* range over the values below, and the call is the only step.             *)
(***************************************************************************)
Leaves ==
    {Null, Bool(TRUE), Num(1), Num(2), Str("s"), Arr(<<Num(1), Num(2)>>), Arr(<<Num(3)>>)}

SmallLeaves == {Null, Num(1), Num(2), Arr(<<Num(3)>>)}

\* objects over the keys x and y
FlatObjects ==
    {Obj(f) : f \in UNION {[K -> SmallLeaves] : K \in SUBSET {"x", "y"}}}

\* objects with a value, possibly an object, under the key a
NestedObjects ==
    {Obj("a" :> v) : v \in Leaves \cup FlatObjects}
    \cup {Obj("a" :> v @@ "x" :> Num(1)) : v \in {Num(2), Obj("x" :> Num(1)), Obj("y" :> Num(2))}}
    \cup {Obj("a" :> Num(1)), Obj("y" :> Num(2)) , Obj("a" :> Num(1) @@ "y" :> Num(2))}

Values == Leaves \cup FlatObjects \cup NestedObjects

InitMerge ==
    /\ Started(0)
    /\ settings = 1
    /\ mergeBase \in Values
    /\ mergePatch \in Values
    /\ mergeOut = None

\* main.rs:223: merge::merge(&mut msg_json, json); json is borrowed immutably
ApplyMerge ==
    /\ mergeOut = None
    /\ mergeOut' = Some(merge(mergeBase, mergePatch))
    /\ UNCHANGED <<mergeBase, mergePatch, procVars, workerVars>>

NextMerge == ApplyMerge

SpecMerge == InitMerge /\ [][NextMerge]_vars

(***************************************************************************)
(* Properties.  trace, pubs and input are read as the history of a worker: *)
(* an event or a record of line n and rule r is about the n-th record the  *)
(* worker parsed, input[w][n], and the r-th configured rule.               *)
(***************************************************************************)
ActionOf(e) == rules[e.rule].actions[e.act]

\* the actions of rule r executed for line n, in the order they ran
Executions(w, n, r) ==
    SelectSeq(trace[w], LAMBDA e : e.ev = "exec" /\ e.line = n /\ e.rule = r)

ExecutedInOrder(w, n, r) ==
    \A i \in 1..Len(Executions(w, n, r)) : Executions(w, n, r)[i].act = i

\* the worker is no longer inside the actions of rule r of line n
Past(w, n, r) == ~(lineNo[w] = n /\ ri[w] = r /\ pc[w] \in {"action", "await"})

\* every action of rule r ran for line n, once the worker is past the rule
RanToCompletion(w, n, r) ==
    /\ ExecutedInOrder(w, n, r)
    /\ Past(w, n, r) => Len(Executions(w, n, r)) = Len(rules[r].actions)

\* nothing of a rule after r was evaluated, executed or published for line n
NoLaterRule(w, n, r) ==
    /\ \A j \in DOMAIN trace[w] : trace[w][j].line = n => trace[w][j].rule <= r
    /\ \A j \in DOMAIN pubs[w] : pubs[w][j].line = n => pubs[w][j].rule <= r

\* rule would match the body if it were evaluated
WouldMatch(rule, body) == rule.field = "Msg" /\ captures(rule.regex, body).some

\* the worker's position after the action it is at
Advanced(w) ==
    IF ai[w] < Len(rules[ri[w]].actions)
    THEN pc'[w] = "action" /\ ai'[w] = ai[w] + 1 /\ ri'[w] = ri[w]
    ELSE pc'[w] = "rule" /\ ri'[w] = ri[w] + 1

IsStop(e) == e.ev = "exec" /\ ActionOf(e).kind = "Stop"

\* C1: once a Stop has executed for a line, no later rule is evaluated,
\* executed or published for that line, and the actions of the rule that
\* holds the Stop all run, in configured order, those after the Stop too.
C1_StopEndsChain ==
    \A w \in Workers : \A i \in DOMAIN trace[w] :
        LET e == trace[w][i]
        IN IsStop(e) => /\ NoLaterRule(w, e.line, e.rule)
                        /\ RanToCompletion(w, e.line, e.rule)

\* a line is done: a Stop ran between two other actions of its rule, and the
\* next rule, which matches the line, was never evaluated
C1_Witness ==
    \E w \in Workers : \E i \in DOMAIN trace[w] :
        LET e == trace[w][i]
        IN /\ IsStop(e)
           /\ pc[w] = "read"
           /\ e.act > 1 /\ e.act < Len(rules[e.rule].actions)
           /\ Len(Executions(w, e.line, e.rule)) = Len(rules[e.rule].actions)
           /\ e.rule < Len(rules)
           /\ WouldMatch(rules[e.rule + 1], input[w][e.line])

IsFailedMerge(w, e) ==
    e.ev = "exec" /\ ActionOf(e).kind = "Merge" /\ ~from_str(input[w][e.line]).some

C2_History ==
    \A w \in Workers : \A i \in DOMAIN trace[w] :
        LET e == trace[w][i]
        IN IsFailedMerge(w, e) =>
             /\ NoLaterRule(w, e.line, e.rule)
             /\ RanToCompletion(w, e.line, e.rule)
             /\ (lineNo[w] > e.line /\ pc[w] = "rule" /\ ri[w] = 1) => continue_rules[w]

C2_Step(w) ==
    (/\ pc[w] = "action"
     /\ CurAction(w).kind = "Merge"
     /\ ~from_str(msg[w]).some
     /\ trace'[w] # trace[w])
    => /\ continue_rules'[w] = FALSE
       /\ output'[w] = output[w]
       /\ pubs'[w] = pubs[w]
       /\ Advanced(w)
       /\ lineNo'[w] = lineNo[w] /\ msg'[w] = msg[w] /\ hash'[w] = hash[w]
       /\ proc' = proc

\* C2: a Merge whose body is not JSON clears continue_rules, leaves the
\* buffer as it was, and goes on to the rule's next action; no later rule
\* is evaluated for the line, the rule's actions all run, and the next line
\* of the connection starts with continue_rules set.
C2_FailedMerge == []C2_History /\ [][\A w \in Workers : C2_Step(w)]_vars

\* a Merge failed on line 1 with a non-empty buffer, the action after it
\* published that buffer, the next rule (which matches) was not evaluated,
\* and the worker is at the first rule of line 2
C2_Witness ==
    \E w \in Workers : \E i \in DOMAIN trace[w] :
        LET e == trace[w][i]
        IN /\ IsFailedMerge(w, e)
           /\ e.line = 1 /\ lineNo[w] = 2 /\ pc[w] = "rule" /\ ri[w] = 1
           /\ \E j \in DOMAIN pubs[w] :
                /\ pubs[w][j].line = 1 /\ pubs[w][j].rule = e.rule
                /\ pubs[w][j].act > e.act /\ pubs[w][j].payload # ""
           /\ e.rule < Len(rules)
           /\ WouldMatch(rules[e.rule + 1], input[w][1])

C3_History ==
    \A w \in Workers : \A n \in DOMAIN input[w] : \A r \in DOMAIN rules :
        ~WouldMatch(rules[r], input[w][n]) =>
            /\ Executions(w, n, r) = <<>>
            /\ \A j \in DOMAIN pubs[w] : ~(pubs[w][j].line = n /\ pubs[w][j].rule = r)
            /\ \A i \in DOMAIN trace[w] :
                 (/\ trace[w][i].line = n /\ trace[w][i].rule = r
                  /\ i < Len(trace[w]) /\ trace[w][i + 1].line = n)
                 => trace[w][i + 1].rule = r + 1 /\ trace[w][i + 1].act = 0

C3_Step(w) ==
    (/\ pc[w] = "rule"
     /\ ri[w] <= Len(rules)
     /\ ~WouldMatch(rules[ri[w]], msg[w])
     /\ trace'[w] # trace[w])
    => /\ continue_rules'[w] = continue_rules[w]
       /\ pubs'[w] = pubs[w]
       /\ pc'[w] = "rule" /\ ri'[w] = ri[w] + 1

\* C3: a rule that does not match the line (its pattern does not match the
\* body, or its field is not Msg) executes no action and publishes nothing,
\* leaves continue_rules as it was, and is followed by the next rule.
C3_NoMatchSkipsRule == []C3_History /\ [][\A w \in Workers : C3_Step(w)]_vars

\* for one line, a rule on an unhandled field and a rule whose pattern does
\* not match were skipped, each holding a Stop, and a later rule ran
C3_Witness ==
    \E w \in Workers : \E n \in DOMAIN input[w] : \E r1, r2, r3 \in DOMAIN rules :
        /\ r1 < r3 /\ r2 < r3
        /\ rules[r1].field # "Msg"
        /\ rules[r2].field = "Msg" /\ ~WouldMatch(rules[r2], input[w][n])
        /\ \A r \in {r1, r2} :
             /\ \E a \in DOMAIN rules[r].actions : rules[r].actions[a].kind = "Stop"
             /\ \E i \in DOMAIN trace[w] :
                  trace[w][i].line = n /\ trace[w][i].rule = r /\ trace[w][i].ev = "nomatch"
        /\ Executions(w, n, r3) # <<>>

Last(q) == q[Len(q)]

\* the worker has just evaluated the first rule of the line it read last
FirstRuleEvaluated(w) ==
    /\ pc[w] \in {"rule", "action"}
    /\ trace[w] # <<>>
    /\ Last(trace[w]).line = lineNo[w]
    /\ Last(trace[w]).rule = 1
    /\ Last(trace[w]).act = 0

\* C4: every line starts rule evaluation with continue_rules set, and its
\* first rule starts with an empty buffer, whatever the line before it did.
C4_FreshLine ==
    \A w \in Workers :
        /\ (pc[w] = "rule" /\ ri[w] = 1) => continue_rules[w]
        /\ FirstRuleEvaluated(w) => continue_rules[w] /\ output[w] = ""

\* line 1 had a failed Merge, a Stop and a publish of a non-empty buffer;
\* the first rule of line 2 has just been evaluated
C4_Witness ==
    \E w \in Workers :
        /\ lineNo[w] = 2
        /\ FirstRuleEvaluated(w)
        /\ \E i \in DOMAIN trace[w] : trace[w][i].line = 1 /\ IsStop(trace[w][i])
        /\ \E i \in DOMAIN trace[w] : trace[w][i].line = 1 /\ IsFailedMerge(w, trace[w][i])
        /\ \E j \in DOMAIN pubs[w] : pubs[w][j].line = 1 /\ pubs[w][j].payload # ""

\* the buffer before action a of rule on body: the result of the last Merge
\* that parsed or Replace that rendered among the actions 1..a-1
RECURSIVE BufferBefore(_, _, _)
BufferBefore(rule, a, body) ==
    IF a = 1 THEN ""
    ELSE LET prev == BufferBefore(rule, a - 1, body)
             act == rule.actions[a - 1]
         IN CASE act.kind = "Merge" ->
                   IF from_str(body).some
                   THEN to_string(merge(from_str(body).v, act.json))
                   ELSE prev
              [] act.kind = "Replace" ->
                   LET r == render_template(act.template, RuleHash(rule, body))
                   IN IF r.some THEN r.v ELSE prev
              [] OTHER -> prev

\* C5: the payload of every publish is what the last successful Merge or
\* Replace before it in the same rule, for the same line, produced, and the
\* empty string when there is none.
C5_BufferPerRule ==
    \A w \in Workers : \A j \in DOMAIN pubs[w] :
        LET p == pubs[w][j]
        IN p.payload = BufferBefore(rules[p.rule], p.act, input[w][p.line])

\* for one line, a rule published a non-empty buffer and a later rule, with
\* no Merge or Replace of its own, published the empty string
C5_Witness ==
    \E w \in Workers : \E j, k \in DOMAIN pubs[w] :
        /\ pubs[w][j].line = pubs[w][k].line
        /\ pubs[w][j].rule < pubs[w][k].rule
        /\ pubs[w][j].payload # ""
        /\ pubs[w][k].payload = ""

\* a comes before b in (line, rule, action) order
Before(a, b) ==
    \/ a.line < b.line
    \/ a.line = b.line /\ a.rule < b.rule
    \/ a.line = b.line /\ a.rule = b.rule /\ a.act < b.act

\* C6: on one connection the publishes, and the rules and actions evaluated,
\* come in (line, rule, action) order, and nothing of a line is left to run
\* once the worker has read the next record.
C6_Ordered ==
    \A w \in Workers :
        /\ \A i, j \in DOMAIN pubs[w] : i < j => Before(pubs[w][i], pubs[w][j])
        /\ \A i, j \in DOMAIN trace[w] : i < j => Before(trace[w][i], trace[w][j])
        /\ \A i \in DOMAIN trace[w] :
             /\ trace[w][i].line <= lineNo[w]
             /\ (trace[w][i].line < lineNo[w] /\ trace[w][i].ev = "match")
                => Len(Executions(w, trace[w][i].line, trace[w][i].rule))
                   = Len(rules[trace[w][i].rule].actions)

\* publishes of two lines, of two rules of one line and of two actions of
\* one rule
C6_Witness ==
    \E w \in Workers : \E i, j, k, l \in DOMAIN pubs[w] :
        /\ i < j /\ j < k /\ k < l
        /\ pubs[w][i].line = pubs[w][j].line /\ pubs[w][i].rule = pubs[w][j].rule
        /\ pubs[w][j].line = pubs[w][k].line /\ pubs[w][j].rule < pubs[w][k].rule
        /\ pubs[w][k].line < pubs[w][l].line

\* what a worker owns
WorkerState(w) ==
    <<pc[w], err[w], lineNo[w], msg[w], ri[w], ai[w], continue_rules[w], output[w],
      rule_matches[w], hash[w], pubs[w], delivery[w], input[w], trace[w]>>

\* a worker that has not returned
Active(w) == pc[w] \in {"start", "read", "rule", "action", "await"}

\* the worker that returned on a rejected record evaluated no rule for the
\* record; the other workers and the accept loop can still take their steps
C7_Rejected ==
    \A w \in Workers :
        err[w] = "parse" =>
            /\ pc[w] = "err"
            /\ Len(input[w]) = lineNo[w] - 1
            /\ \A i \in DOMAIN trace[w] : trace[w][i].line < lineNo[w]
            /\ \A j \in DOMAIN pubs[w] : pubs[w][j].line < lineNo[w]
            /\ proc = "running"
               => /\ \A v \in Workers \ {w} : Active(v) => ENABLED WorkerStep(v)
                  /\ backlog > 0 => ENABLED AcceptLoop("ok")

\* the step in which the parser rejects a record changes nothing but the
\* worker it happens to; the worker takes no step after it
C7_Step(w) ==
    /\ (err[w] # "parse" /\ err'[w] = "parse")
       => /\ <<settings, backlog, proc, spawned, connection_count, lines_count>>'
             = <<settings, backlog, proc, spawned, connection_count, lines_count>>
          /\ \A v \in Workers \ {w} : WorkerState(v)' = WorkerState(v)
    /\ err[w] = "parse" => WorkerState(w)' = WorkerState(w)

\* C7: a record the parser rejects ends its connection's worker before any
\* rule is evaluated for it, for good; the other workers and the accept loop
\* are left as they were and go on.
C7_ParseErrorIsLocal == []C7_Rejected /\ [][\A w \in Workers : C7_Step(w)]_vars

\* a worker returned on its second record, rejected, after evaluating rules
\* for its first; another worker is in the middle of a rule's actions
C7_Witness ==
    \E w, v \in Workers :
        /\ w # v
        /\ proc = "running"
        /\ err[w] = "parse"
        /\ lineNo[w] = 2
        /\ trace[w] # <<>>
        /\ pc[v] = "action"

\* the step in which the awaited delivery completes
C8_Step(w) ==
    (pc[w] = "await" /\ pc'[w] # "await")
    => /\ delivery'[w] \in {"ok", "err"}
       /\ Advanced(w)
       /\ <<err[w], lineNo[w], msg[w], continue_rules[w], output[w], hash[w],
            pubs[w], trace[w]>>'
          = <<err[w], lineNo[w], msg[w], continue_rules[w], output[w], hash[w],
              pubs[w], trace[w]>>

\* a delivery that failed left the worker in the pipeline, and no record was
\* handed to the producer twice
C8_NotObserved ==
    \A w \in Workers :
        /\ delivery[w] \in {"ok", "err"} => pc[w] \in {"action", "rule"}
        /\ \A i, j \in DOMAIN pubs[w] :
             (/\ pubs[w][i].line = pubs[w][j].line
              /\ pubs[w][i].rule = pubs[w][j].rule
              /\ pubs[w][i].act = pubs[w][j].act) => i = j

\* C8: when a publish completes the worker goes on to the action or rule
\* after the Forward with its buffer, chain state, captures, publishes and
\* history as they were, whether the delivery succeeded or failed; a failed
\* publish is not sent again and does not end the worker.
C8_PublishOutcomeIgnored ==
    []C8_NotObserved /\ [][\A w \in Workers : C8_Step(w)]_vars

\* a delivery failed and the worker is at the next action of the same rule
C8_Witness ==
    \E w \in Workers :
        /\ delivery[w] = "err"
        /\ pc[w] = "action"
        /\ pubs[w] # <<>>
        /\ Last(pubs[w]).line = lineNo[w]
        /\ Last(pubs[w]).rule = ri[w]
        /\ Last(pubs[w]).act = ai[w] - 1

\* C9: once startup has succeeded nothing ends the process or the accept
\* loop.  Refuted: a failed accept (main.rs:131) returns Err from
\* accept_loop and main returns it.
C9_ProcessSurvives == proc = "running"

\* a rule whose actions are a Merge and then a Forward
IsMergeForward(rule) ==
    /\ Len(rule.actions) = 2
    /\ rule.actions[1].kind = "Merge"
    /\ rule.actions[2].kind = "Forward"

\* the records handed to the producer by rule r for line n
Published(w, n, r) ==
    SelectSeq(pubs[w], LAMBDA p : p.line = n /\ p.rule = r)

\* the Forward of a Merge-Forward rule has executed for a body that parses
ForwardedMerge(w, e) ==
    /\ e.ev = "exec"
    /\ e.act = 2
    /\ IsMergeForward(rules[e.rule])
    /\ from_str(input[w][e.line]).some

\* the one record such a rule publishes
MergedRecord(w, e, topic) ==
    LET body == input[w][e.line]
        merged == to_string(merge(from_str(body).v, rules[e.rule].actions[1].json))
    IN /\ Len(Published(w, e.line, e.rule)) = 1
       /\ Published(w, e.line, e.rule)[1].topic = topic
       /\ Published(w, e.line, e.rule)[1].payload = merged
       /\ Published(w, e.line, e.rule)[1].key = merged

\* the example: body {"code":500}, patch {"level":"error"}, errors-{{code}}
ExampleRecord(w, e) ==
    (/\ input[w][e.line] = "{\"code\":500}"
     /\ rules[e.rule].regex = ReCode
     /\ rules[e.rule].actions[1].json = PatchLevel
     /\ rules[e.rule].actions[2].topic = "errors-{{code}}")
    => /\ Published(w, e.line, e.rule)[1].topic = "errors-500"
       /\ Published(w, e.line, e.rule)[1].payload = "{\"code\":500,\"level\":\"error\"}"
       /\ Published(w, e.line, e.rule)[1].key = "{\"code\":500,\"level\":\"error\"}"

\* C10 as stated: a Merge-Forward rule that matched a body that parses
\* publishes exactly one record, to the rendered topic, with the merged
\* body as payload and key.
C10_AlwaysOnePublish ==
    \A w \in Workers : \A i \in DOMAIN trace[w] :
        LET e == trace[w][i]
            topic == render_template(rules[e.rule].actions[2].topic,
                                     RuleHash(rules[e.rule], input[w][e.line]))
        IN ForwardedMerge(w, e) => topic.some /\ MergedRecord(w, e, topic.v)

\* C10: a Merge-Forward rule that matched a body that parses publishes
\* exactly one record when its topic template renders, to the rendered
\* topic, with the merged body as payload and key, and publishes nothing
\* when the topic template does not render.
C10_OnePublishIfTopicRenders ==
    \A w \in Workers : \A i \in DOMAIN trace[w] :
        LET e == trace[w][i]
            topic == render_template(rules[e.rule].actions[2].topic,
                                     RuleHash(rules[e.rule], input[w][e.line]))
        IN ForwardedMerge(w, e) =>
             IF topic.some
             THEN MergedRecord(w, e, topic.v) /\ ExampleRecord(w, e)
             ELSE Published(w, e.line, e.rule) = <<>>

\* the example has run: errors-500 received the merged body
C10_Witness ==
    \E w \in Workers : \E i \in DOMAIN trace[w] : \E j \in DOMAIN pubs[w] :
        /\ ForwardedMerge(w, trace[w][i])
        /\ input[w][trace[w][i].line] = "{\"code\":500}"
        /\ pubs[w][j].line = trace[w][i].line
        /\ pubs[w][j].rule = trace[w][i].rule
        /\ pubs[w][j].topic = "errors-500"
        /\ pubs[w][j].payload = "{\"code\":500,\"level\":\"error\"}"

\* what the merge rules say of result r for base b and patch p; nothing is
\* said of an object patch merged into a base that is not an object
RECURSIVE MergeLaw(_, _, _)
MergeLaw(b, p, r) ==
    IF p.t # "obj" THEN r = p
    ELSE IF b.t # "obj" THEN TRUE
    ELSE /\ r.t = "obj"
         /\ DOMAIN r.o = (DOMAIN b.o) \cup (DOMAIN p.o)
         /\ \A k \in DOMAIN r.o :
              IF k \notin DOMAIN p.o THEN r.o[k] = b.o[k]
              ELSE IF k \notin DOMAIN b.o THEN r.o[k] = p.o[k]
              ELSE MergeLaw(b.o[k], p.o[k], r.o[k])

\* the merges the specification spells out
MergeExamples ==
    /\ (mergeBase = Obj("a" :> Num(1)) /\ mergePatch = Obj("y" :> Num(2)))
       => mergeOut.v = Obj("a" :> Num(1) @@ "y" :> Num(2))
    /\ (mergeBase = Obj("a" :> Obj("x" :> Num(1))) /\ mergePatch = Obj("a" :> Obj("y" :> Num(2))))
       => mergeOut.v = Obj("a" :> Obj("x" :> Num(1) @@ "y" :> Num(2)))
    /\ (mergeBase = Obj("a" :> Arr(<<Num(1), Num(2)>>)) /\ mergePatch = Obj("a" :> Arr(<<Num(3)>>)))
       => mergeOut.v = Obj("a" :> Arr(<<Num(3)>>))

C11_Merged == mergeOut.some => MergeLaw(mergeBase, mergePatch, mergeOut.v) /\ MergeExamples

\* C11: merging two objects gives the union of their keys, a base-only key
\* with its base value, a patch-only key with the patch value, a shared key
\* with the recursive merge; a patch that is a scalar, a sequence or null
\* replaces the base value (sequences are never merged element-wise); the
\* patch is not modified.
C11_StructuredMerge == []C11_Merged /\ [][mergePatch' = mergePatch]_vars

\* a nested object was merged under a shared key next to a base-only key
C11_Witness ==
    /\ mergeOut.some
    /\ mergeBase = Obj("a" :> Obj("x" :> Num(1)) @@ "x" :> Num(1))
    /\ mergePatch = Obj("a" :> Obj("y" :> Num(2)))
    /\ mergeOut.v = Obj("a" :> Obj("x" :> Num(1) @@ "y" :> Num(2)) @@ "x" :> Num(1))

\* the worker is inside the actions of a matched rule: hash[w] is the
\* capture context of that rule for the line
InMatchedRule(w) == pc[w] \in {"action", "await"}

\* the texts of the groups of the rule the worker is in: the whole match,
\* then one entry per group, None for a group that took no part
GroupTexts(w) == captures(rules[ri[w]].regex, msg[w]).v

\* the named groups of the rule the worker is in that took part in the match
Participating(w) ==
    {g \in 1..Len(rules[ri[w]].regex.groups) :
        rules[ri[w]].regex.groups[g].name.some /\ GroupTexts(w)[g + 1].some}

\* C13: in a matched rule the keys of the capture context other than the
\* reserved "msg" are exactly the names of the named groups that took part
\* in the match, each with its captured text; an unnamed group gives no key
\* and a named group that took no part is absent.
C13_NamedCaptures ==
    \A w \in Workers :
        InMatchedRule(w) =>
            /\ DOMAIN hash[w] \ {"msg"}
               = {rules[ri[w]].regex.groups[g].name.v : g \in Participating(w)} \ {"msg"}
            /\ \A g \in Participating(w) :
                 rules[ri[w]].regex.groups[g].name.v # "msg"
                 => hash[w][rules[ri[w]].regex.groups[g].name.v] = GroupTexts(w)[g + 1].v

\* the rule whose optional named group took part for line 1 has matched
\* line 2 with its unnamed group alone: the context holds "msg" only
C13_Witness ==
    \E w \in Workers :
        /\ InMatchedRule(w)
        /\ rules[ri[w]].regex = ReUnit
        /\ lineNo[w] = 2
        /\ input[w][1] = BodyText
        /\ \E i \in DOMAIN trace[w] :
             trace[w][i].line = 1 /\ trace[w][i].rule = ri[w] /\ trace[w][i].ev = "match"
        /\ GroupTexts(w)[2].some
        /\ ~GroupTexts(w)[3].some
        /\ DOMAIN hash[w] = {"msg"}

\* C17: in a matched rule "msg" maps to the whole message body.  Refuted: a
\* named group called msg is inserted over the seeded entry (main.rs:188).
C17_MsgIsBody ==
    \A w \in Workers : InMatchedRule(w) => hash[w]["msg"] = msg[w]

\* the step evaluates a rule for worker w and the rule does not match
NoMatchStep(w) ==
    /\ Len(trace'[w]) = Len(trace[w]) + 1
    /\ Last(trace'[w]).ev = "nomatch"

ExecStep(w) ==
    /\ Len(trace'[w]) = Len(trace[w]) + 1
    /\ Last(trace'[w]).ev = "exec"

\* the action the worker is at renders a template, and it does not render
RenderFails(w) ==
    /\ pc[w] = "action"
    /\ \/ /\ CurAction(w).kind = "Forward"
          /\ ~render_template(CurAction(w).topic, hash[w]).some
       \/ /\ CurAction(w).kind = "Replace"
          /\ ~render_template(CurAction(w).template, hash[w]).some

\* C15: an action whose template does not render does nothing: a Forward
\* publishes nothing, a Replace leaves the buffer as it was, the chain
\* state is unchanged and the worker goes on to the next action of the
\* rule, or to the next rule after the last action.
C15_RenderFailureIsNoOp ==
    [][\A w \in Workers :
         (ExecStep(w) /\ RenderFails(w)) =>
            /\ pubs'[w] = pubs[w]
            /\ output'[w] = output[w]
            /\ continue_rules'[w] = continue_rules[w]
            /\ hash'[w] = hash[w]
            /\ Advanced(w)]_vars

\* for one line: the Forward of the first rule did not render and published
\* nothing, the second rule ran, its Replace did not render and its Forward
\* published the buffer, still empty
C15_Witness ==
    \E w \in Workers : \E i, j \in DOMAIN trace[w] : \E k \in DOMAIN pubs[w] :
        /\ trace[w][i].line = trace[w][j].line
        /\ IsMergeForward(rules[trace[w][i].rule])
        /\ trace[w][i].ev = "exec" /\ trace[w][i].act = 2
        /\ ~render_template(rules[trace[w][i].rule].actions[2].topic,
                            RuleHash(rules[trace[w][i].rule], input[w][trace[w][i].line])).some
        /\ Published(w, trace[w][i].line, trace[w][i].rule) = <<>>
        /\ trace[w][j].rule > trace[w][i].rule
        /\ trace[w][j].ev = "exec" /\ trace[w][j].act = 1
        /\ ActionOf(trace[w][j]).kind = "Replace"
        /\ ActionOf(trace[w][j]).template = "{{}}"
        /\ pubs[w][k].line = trace[w][j].line
        /\ pubs[w][k].rule = trace[w][j].rule
        /\ pubs[w][k].act = 2
        /\ pubs[w][k].payload = ""

\* C16: the worker does not wait for a delivery: while the delivery of a
\* record is outstanding the worker is at its next action, rule or line.
\* Refuted: the worker awaits the delivery future (main.rs:214-217).
C16_NoWaitForDelivery ==
    \A w \in Workers : delivery[w] = "pending" => pc[w] \in {"action", "rule", "read"}

\* the step executes a Merge of worker w on a body that parses
MergeStep(w) ==
    /\ ExecStep(w)
    /\ pc[w] = "action"
    /\ CurAction(w).kind = "Merge"
    /\ from_str(input[w][lineNo[w]]).some

\* C18: a Merge on a body that parses sets the buffer to the serialization
\* of the body of the line merged with the patch of this action, whatever
\* the buffer held, and leaves the chain state as it was.
C18_MergeOverwrites ==
    [][\A w \in Workers :
         MergeStep(w) =>
            /\ output'[w] = to_string(merge(from_str(input[w][lineNo[w]]).v,
                                            CurAction(w).json))
            /\ continue_rules'[w] = continue_rules[w]]_vars

\* a Replace, a Merge of {"level":"error"} and a Merge of {} have run in
\* one rule: the buffer is the body merged with {} alone
C18_Witness ==
    \E w \in Workers : \E i, j \in DOMAIN trace[w] :
        /\ i < j /\ j < Len(trace[w])
        /\ trace[w][i].ev = "exec" /\ trace[w][j].ev = "exec" /\ Last(trace[w]).ev = "exec"
        /\ trace[w][i].line = lineNo[w] /\ trace[w][j].line = lineNo[w]
        /\ Last(trace[w]).line = lineNo[w]
        /\ trace[w][i].rule = trace[w][j].rule /\ trace[w][j].rule = Last(trace[w]).rule
        /\ ActionOf(trace[w][i]).kind = "Replace"
        /\ ActionOf(trace[w][j]) = Merge(PatchLevel)
        /\ ActionOf(Last(trace[w])) = Merge(EmptyObj)
        /\ input[w][lineNo[w]] = "{\"code\":500}"
        /\ output[w] = "{\"code\":500}"
        /\ continue_rules[w]

\* the worker is evaluating the rules for the record it read last
Evaluating(w) == pc[w] \in {"rule", "action", "await"}

\* the events of kind ev for line n, rule r and action a
Events(w, n, r, a, ev) ==
    {i \in DOMAIN trace[w] :
        /\ trace[w][i].line = n /\ trace[w][i].rule = r
        /\ trace[w][i].act = a /\ trace[w][i].ev = ev}

\* per line a rule is visited at most once, in configured order, and an
\* action is run at most once
C19_AtMostOnce ==
    \A w \in Workers :
        /\ \A n \in 1..lineNo[w] : \A r \in 1..Len(rules) :
             /\ Cardinality(Events(w, n, r, 0, "match") \cup Events(w, n, r, 0, "nomatch")) <= 1
             /\ \A a \in 1..Len(rules[r].actions) :
                  Cardinality(Events(w, n, r, a, "exec")) <= 1
        /\ \A i, j \in DOMAIN trace[w] :
             (i < j /\ trace[w][i].line = trace[w][j].line)
             => trace[w][i].rule <= trace[w][j].rule
        /\ \A i \in DOMAIN trace[w] : trace[w][i].rule \in 1..Len(rules)

\* the evaluation of a line ends at the top of a rule iteration only, after
\* the last rule or with continue_rules cleared, and the worker is then
\* reading the next record
C19_Ends(w) ==
    (Evaluating(w) /\ ~Evaluating(w)')
    => /\ pc[w] = "rule"
       /\ ri[w] > Len(rules) \/ ~continue_rules[w]
       /\ pc'[w] = "read"

\* C19: the evaluation of every line terminates: each rule is visited at
\* most once per line in configured order, each action of a matched rule
\* runs at most once, the evaluation ends after the last rule or when
\* continue_rules is found cleared at the top of a rule iteration, and the
\* worker then reads the next record.
C19_EvaluationTerminates ==
    /\ []C19_AtMostOnce
    /\ [][\A w \in Workers : C19_Ends(w)]_vars
    /\ \A w \in Workers : Evaluating(w) ~> pc[w] = "read"

\* the evaluation of line 1 ended on continue_rules, before the last rule,
\* and that of line 2 after the last rule
C19_Witness ==
    \E w \in Workers :
        /\ pc[w] = "read"
        /\ lineNo[w] = 2
        /\ Len(rules) >= 2
        /\ \A i \in DOMAIN trace[w] : trace[w][i].line = 1 => trace[w][i].rule < Len(rules)
        /\ \E i \in DOMAIN trace[w] : trace[w][i].line = 1 /\ trace[w][i].ev = "exec"
        /\ \E i \in DOMAIN trace[w] : trace[w][i].line = 2 /\ trace[w][i].rule = Len(rules)
        /\ continue_rules[w]

\* the records the parser accepted on the connections of workers 1..n
RECURSIVE Accepted(_)
Accepted(n) == IF n = 0 THEN 0 ELSE Len(input[n]) + Accepted(n - 1)

\* C20: the connections counter is the number of workers spawned and the
\* lines counter is the number of records the parser accepted.  Refuted: the
\* connections counter is bumped before the accepted stream is looked at
\* (main.rs:130-131), so a failed accept is counted and spawns no worker.
C20_CountersExact ==
    /\ connection_count = spawned
    /\ lines_count = Accepted(MaxConn)

\* the lines counter alone
LinesCounted == lines_count = Accepted(MaxConn)

=============================================================================
